---- MODULE Spec2Model ----
(***************************************************************************)
(* Catalog synchronisation pipeline of catalogo-espejo: sync_catalog       *)
(* (sync_service.py), the OdooScraper it drives (odoo_scraper.py) and the  *)
(* two triggers that start a run (main.py).                                *)
(*                                                                         *)
(* A listing URL is modelled by the page number it addresses (0 = None);   *)
(* a product dict by the keys the pipeline reads and writes (id,           *)
(* image_url, category_ids); the HTML of a page by the triple              *)
(* get_products_from_page extracts from it.                                *)
(***************************************************************************)
EXTENDS Integers, Sequences, FiniteSets, TLC

\* ------------------------------------------------------------------------
\* Bounds of the model and constants of the program
\* ------------------------------------------------------------------------

\* the largest product total a listing page reports
MaxTotal == 2

\* get_all_products: "if page > 100: break"
PAGE_LIMIT == 100

\* get_all_products: "if not products and page < 50"
PROBE_LIMIT == 50

\* the two callers of sync_catalog that can be active in one process
Runners == {"scheduler", "manual"}

NoUrl == 0
NoParent == 0

\* excerpt of the fixed category table: root 1 "Bano de Oro" and its first child
CATEGORIES_STRUCTURE ==
    [parents |-> <<1>>, children |-> [p \in {1} |-> <<5>>]]

ProductIds == {101, 102}

\* a product dict as _parse_product_form returns it
Product(id, img) == [id |-> id, image_url |-> img]

\* the product containers one listing page can hold
PageContents ==
    { <<>>,
      <<Product(101, "remote")>>,
      <<Product(101, "remote"), Product(102, "")>> }

Totals == {0, MaxTotal}

\* what get_products_from_page extracts from one page: the products, the
\* kind of next link ("none", "succ": the following page, "self": the page
\* itself, as method 2 builds when the active-page marker is missing) and
\* the reported total
Responses == [products : PageContents, next : {"none", "succ", "self"}, total : Totals]

\* a source listing: its first page and what every later page answers
Sources == [first : Responses, rest : Responses]

\* listings a sync run crawls: the later pages end the listing and hold at
\* most the one product
SyncSources ==
    {s \in Sources : /\ s.first.next # "self"
                     /\ s.rest.next = "none"
                     /\ s.rest.total = 0
                     /\ Len(s.rest.products) <= 1}

\* the ids of the category table; a category's URL is modelled by its id
CategoryIds ==
    {CATEGORIES_STRUCTURE.parents[i] : i \in DOMAIN CATEGORIES_STRUCTURE.parents}
    \cup UNION {{CATEGORIES_STRUCTURE.children[p][k] :
                    k \in DOMAIN CATEGORIES_STRUCTURE.children[p]} :
                p \in DOMAIN CATEGORIES_STRUCTURE.children}

\* ------------------------------------------------------------------------
\* State
\* ------------------------------------------------------------------------

VARIABLES
    source,         \* the remote shop: the listing behind each category URL
    pc,             \* position of each caller inside sync_catalog
    client,         \* odoo_scraper.client: "none", "open" or "closed"
    catalog_file,   \* data/catalog.json
    image_files,    \* product ids with a file under static/images/products
    loc,            \* locals of each sync_catalog call
    pag,            \* locals of each get_all_products call
    hist            \* per-run history: what the run has done so far

vars == <<source, pc, client, catalog_file, image_files, loc, pag, hist>>

\* the structure load_catalog returns when there is no readable file
EmptyTree == [parents |-> <<>>, children |-> <<>>, all |-> <<>>]

EmptySnapshot ==
    [last_sync |-> FALSE, categories |-> EmptyTree,
     products |-> <<>>, products_by_category |-> <<>>,
     total_products |-> 0, total_categories |-> 0, parent_categories |-> 0]

NoLocals ==
    [category_tree |-> EmptyTree, total_categories |-> 0,
     all_products |-> <<>>, products_by_category |-> <<>>,
     seen_product_ids |-> {}, cat_idx |-> 0, products |-> <<>>, prod_idx |-> 0,
     catalog_data |-> EmptySnapshot, result |-> "none"]

NoPag ==
    [category_url |-> NoUrl, url |-> NoUrl, page |-> 0, total_expected |-> 0,
     all_products |-> <<>>, next_url |-> NoUrl]

NoHist ==
    [prev_file |-> [state |-> "absent", data |-> EmptySnapshot],
     prev_images |-> {},
     connect_calls |-> 0, close_calls |-> 0,
     downloads |-> [p \in ProductIds |-> 0],
     crawled |-> <<>>, iterations |-> 0, fetched |-> <<>>,
     write_failed |-> FALSE, dump_started |-> FALSE]

InFlight(r) == pc[r] \notin {"idle", "returned", "raised"}

\* ------------------------------------------------------------------------
\* odoo_scraper.py
\* ------------------------------------------------------------------------

\* parent_data / child_data of get_category_hierarchy
CategoryData(id, parent) == [id |-> id, url |-> id, parent_id |-> parent]

RECURSIVE ChildrenFrom(_, _)
ChildrenFrom(struct, i) ==
    IF i > Len(struct.parents) THEN <<>>
    ELSE LET p == struct.parents[i]
             kids == struct.children[p]
         IN [k \in 1..Len(kids) |-> CategoryData(kids[k], p)]
            \o ChildrenFrom(struct, i + 1)

\* OdooScraper.get_category_hierarchy: the fixed table as parents, children
\* and the insertion-ordered "all" (parents first, then each parent's children)
get_category_hierarchy ==
    LET struct == CATEGORIES_STRUCTURE
        parents == [i \in 1..Len(struct.parents) |->
                        CategoryData(struct.parents[i], NoParent)]
    IN [parents |-> parents,
        children |-> [p \in DOMAIN struct.children |->
                         [k \in 1..Len(struct.children[p]) |->
                             CategoryData(struct.children[p][k], p)]],
        all |-> parents \o ChildrenFrom(struct, 1)]

\* the next-page URL a page of a listing yields (methods 1 and 2)
NextUrl(kind, n) ==
    CASE kind = "none" -> NoUrl
      [] kind = "succ" -> n + 1
      [] kind = "self" -> n

\* OdooScraper.get_products_from_page on page n of the listing behind
\* category_url, with the session in state cl: a failed fetch (_get_soup
\* returned None) is the empty triple
get_products_from_page(category_url, n, cl) ==
    IF cl # "open" THEN [products |-> <<>>, next_page |-> NoUrl, total |-> 0]
    ELSE LET src == source[category_url]
             resp == IF n = 1 THEN src.first ELSE src.rest
         IN [products |-> resp.products,
             next_page |-> NextUrl(resp.next, n),
             total |-> resp.total]

\* get_all_products: "if total_expected > 0 and len(all_products) >= total_expected"
TotalReached(total_expected, all_products) ==
    total_expected > 0 /\ Len(all_products) >= total_expected

\* get_all_products: "if not products and page < 50"
ProbeNeeded(products, page) == products = <<>> /\ page < PROBE_LIMIT

\* the ceiling check left out
PageLimitReached_never(page) == FALSE

\* get_all_products: "if page > 100: break"
PageLimitReached(page) == page > PAGE_LIMIT

\* get_all_products, tail of one loop iteration: url = next_url; page += 1;
\* the ceiling check; the loop condition "while url"
Advance(r, all, texp, next_url) ==
    LET page == pag[r].page + 1
        done == PageLimitReached(page) \/ next_url = NoUrl
    IN /\ pag' = [pag EXCEPT ![r] = [@ EXCEPT !.all_products = all,
                                              !.total_expected = texp,
                                              !.next_url = next_url,
                                              !.url = next_url,
                                              !.page = page]]
       /\ pc' = [pc EXCEPT ![r] = IF done THEN "pag_return" ELSE "pag_loop"]

\* get_all_products, one loop iteration up to the forced probe
PagFetch(r) ==
    /\ pc[r] = "pag_loop"
    /\ LET p == pag[r]
           got == get_products_from_page(p.category_url, p.url, client)
           texp == IF got.total > 0 /\ p.total_expected = 0
                   THEN got.total ELSE p.total_expected
           all == p.all_products \o got.products
       IN /\ hist' = [hist EXCEPT ![r].iterations = @ + 1,
                                  ![r].fetched = Append(@, p.url)]
          /\ IF TotalReached(texp, all)
             THEN /\ pag' = [pag EXCEPT ![r] = [@ EXCEPT !.all_products = all,
                                                        !.total_expected = texp,
                                                        !.next_url = got.next_page]]
                  /\ pc' = [pc EXCEPT ![r] = "pag_return"]
             ELSE IF ProbeNeeded(got.products, p.page)
             THEN /\ pag' = [pag EXCEPT ![r] = [@ EXCEPT !.all_products = all,
                                                        !.total_expected = texp,
                                                        !.next_url = p.page + 1]]
                  /\ pc' = [pc EXCEPT ![r] = "pag_probe"]
             ELSE Advance(r, all, texp, got.next_page)
    /\ UNCHANGED <<source, client, catalog_file, image_files, loc>>

\* get_all_products, the forced probe of the synthesized page + 1 URL
PagProbe(r) ==
    /\ pc[r] = "pag_probe"
    /\ LET p == pag[r]
           test == get_products_from_page(p.category_url, p.next_url, client)
       IN /\ hist' = [hist EXCEPT ![r].fetched = Append(@, p.next_url)]
          /\ IF test.products = <<>>
             THEN /\ pc' = [pc EXCEPT ![r] = "pag_return"]
                  /\ UNCHANGED pag
             ELSE Advance(r, p.all_products \o test.products,
                          p.total_expected, p.next_url)
    /\ UNCHANGED <<source, client, catalog_file, image_files, loc>>

\* ------------------------------------------------------------------------
\* sync_service.py: sync_catalog
\* ------------------------------------------------------------------------

\* a caller enters sync_catalog
Enter(r) ==
    /\ pc[r] = "idle"
    /\ pc' = [pc EXCEPT ![r] = "ensure_directories"]
    /\ loc' = [loc EXCEPT ![r] = NoLocals]
    /\ pag' = [pag EXCEPT ![r] = NoPag]
    /\ hist' = [hist EXCEPT ![r] = [NoHist EXCEPT !.prev_file = catalog_file,
                                                 !.prev_images = image_files]]
    /\ UNCHANGED <<source, client, catalog_file, image_files>>

\* the lifespan startup call, an interval job or POST /api/sync, arriving
\* when no other call is active
Trigger(r) ==
    /\ \A q \in Runners : pc[q] = "idle"
    /\ Enter(r)

\* ensure_directories(), called before the try block: a mkdir that fails
\* raises out of sync_catalog
EnsureDirectories(r) ==
    /\ pc[r] = "ensure_directories"
    /\ \E ok \in BOOLEAN :
          pc' = [pc EXCEPT ![r] = IF ok THEN "connect" ELSE "raised"]
    /\ UNCHANGED <<source, client, catalog_file, image_files, loc, pag, hist>>

\* odoo_scraper.connect() and "if not ...: return False": a new session
\* replaces self.client, then the probe decides
Connect(r) ==
    /\ pc[r] = "connect"
    /\ client' = "open"
    /\ hist' = [hist EXCEPT ![r].connect_calls = @ + 1]
    /\ \E status200 \in BOOLEAN :
          IF status200
          THEN /\ pc' = [pc EXCEPT ![r] = "hierarchy"]
               /\ UNCHANGED loc
          ELSE /\ pc' = [pc EXCEPT ![r] = "returned"]
               /\ loc' = [loc EXCEPT ![r].result = "false"]
    /\ UNCHANGED <<source, catalog_file, image_files, pag>>

\* the seen set seeded with the ids whose image is already stored
NewSeenSet_from_images(images) == images

\* "seen_product_ids = set()": every run starts with no product seen,
\* whatever images earlier runs have stored
NewSeenSet(images) == {}

\* category_tree = get_category_hierarchy() and the empty accumulators
GetHierarchy(r) ==
    /\ pc[r] = "hierarchy"
    /\ loc' = [loc EXCEPT ![r].category_tree = get_category_hierarchy,
                          ![r].total_categories = Len(get_category_hierarchy.all),
                          ![r].all_products = <<>>,
                          ![r].products_by_category = <<>>,
                          ![r].seen_product_ids = NewSeenSet(image_files),
                          ![r].cat_idx = 1]
    /\ pc' = [pc EXCEPT ![r] = "categories"]
    /\ UNCHANGED <<source, client, catalog_file, image_files, pag, hist>>

\* only child categories are crawled
Crawlable_children_only(cat_data) ==
    cat_data.url # NoUrl /\ cat_data.parent_id # NoParent

\* "if not cat_url: continue"
Crawlable(cat_data) == cat_data.url # NoUrl

\* head of the loop over category_tree["all"]: skip a category without URL,
\* or call get_products_by_category -> get_all_products on its listing
StartCrawl(r) ==
    /\ pc[r] = "categories"
    /\ loc[r].cat_idx <= Len(loc[r].category_tree.all)
    /\ LET cat_data == loc[r].category_tree.all[loc[r].cat_idx]
       IN IF ~Crawlable(cat_data)
          THEN /\ loc' = [loc EXCEPT ![r].cat_idx = @ + 1]
               /\ UNCHANGED <<pc, pag, hist>>
          ELSE /\ pag' = [pag EXCEPT ![r] =
                                [category_url |-> cat_data.url, url |-> 1,
                                 page |-> 1, total_expected |-> 0,
                                 all_products |-> <<>>, next_url |-> NoUrl]]
               /\ hist' = [hist EXCEPT ![r].crawled = Append(@, cat_data.id),
                                       ![r].iterations = 0,
                                       ![r].fetched = <<>>]
               /\ pc' = [pc EXCEPT ![r] = "pag_loop"]
               /\ UNCHANGED loc
    /\ UNCHANGED <<source, client, catalog_file, image_files>>

\* products = get_products_by_category(...); products_by_category[cat_id] = []
CrawlReturn(r) ==
    /\ pc[r] = "pag_return"
    /\ LET cat_id == loc[r].category_tree.all[loc[r].cat_idx].id
       IN loc' = [loc EXCEPT ![r].products = pag[r].all_products,
                             ![r].prod_idx = 1,
                             ![r].products_by_category = (cat_id :> <<>>) @@ @]
    /\ pag' = [pag EXCEPT ![r] = NoPag]
    /\ hist' = [hist EXCEPT ![r].iterations = 0, ![r].fetched = <<>>]
    /\ pc' = [pc EXCEPT ![r] = "products"]
    /\ UNCHANGED <<source, client, catalog_file, image_files>>

\* an exception inside the crawl (urljoin or the parser on malformed markup)
\* reaches "except Exception": return False
CrawlRaise(r) ==
    /\ pc[r] \in {"pag_loop", "pag_probe"}
    /\ pc' = [pc EXCEPT ![r] = "finally"]
    /\ loc' = [loc EXCEPT ![r].result = "false"]
    /\ UNCHANGED <<source, client, catalog_file, image_files, pag, hist>>

\* the download without the already-seen guard
DownloadNeeded_unguarded(prod, seen) == prod.image_url # ""

\* "if prod.get('image_url') and prod_id not in seen_product_ids"
DownloadNeeded(prod, seen) == prod.image_url # "" /\ prod.id \notin seen

\* "if cat_id not in p['category_ids']: p['category_ids'].append(cat_id)"
AddCategory(category_ids, cat_id) ==
    IF \E i \in 1..Len(category_ids) : category_ids[i] = cat_id
    THEN category_ids ELSE Append(category_ids, cat_id)

\* index of the first record of all_products with this id ("for p in
\* all_products: if p['id'] == prod_id: ... break")
FirstIndex(all_products, prod_id) ==
    CHOOSE i \in 1..Len(all_products) :
        /\ all_products[i].id = prod_id
        /\ \A j \in 1..(i - 1) : all_products[j].id # prod_id

\* the else branch without the merge
MergeCategory_dropped(all_products, prod_id, cat_id) == all_products

\* the else branch: merge cat_id into the first stored record of prod_id;
\* the for loop changes nothing when no record has that id
MergeCategory(all_products, prod_id, cat_id) ==
    IF \E i \in 1..Len(all_products) : all_products[i].id = prod_id
    THEN LET i == FirstIndex(all_products, prod_id)
         IN [all_products EXCEPT ![i].category_ids = AddCategory(@, cat_id)]
    ELSE all_products

\* the stored record is the same dict object as the entry of
\* products_by_category that was appended when the product was first seen
\* (shared = TRUE): the merge shows through that entry
MergeShared(pbc, prod_id, cat_id) ==
    [c \in DOMAIN pbc |->
        [j \in 1..Len(pbc[c]) |->
            IF pbc[c][j].shared /\ pbc[c][j].id = prod_id
            THEN [pbc[c][j] EXCEPT !.category_ids = AddCategory(@, cat_id)]
            ELSE pbc[c][j]]]

\* every listed product appended, seen or not
AddOrMerge_always_append(all_products, seen, prod, cat_id) ==
    Append(all_products, prod)

\* "if prod_id not in seen_product_ids: ... all_products.append(prod)
\*  else: (merge)"
AddOrMerge(all_products, seen, prod, cat_id) ==
    IF prod.id \notin seen
    THEN Append(all_products, prod)
    ELSE MergeCategory(all_products, prod.id, cat_id)

\* body of "for prod in products" for one product
ProcessProduct(r) ==
    /\ pc[r] = "products"
    /\ loc[r].prod_idx <= Len(loc[r].products)
    /\ LET l == loc[r]
           cat_id == l.category_tree.all[l.cat_idx].id
           prod0 == l.products[l.prod_idx]
           seen == l.seen_product_ids
           fresh == prod0.id \notin seen
       IN \E status200 \in BOOLEAN :
            LET download == DownloadNeeded(prod0, seen)
                stored == download /\ status200 /\ client = "open"
                prod == [id |-> prod0.id,
                         image_url |-> IF stored THEN "local" ELSE prod0.image_url,
                         category_ids |-> AddCategory(<<>>, cat_id)]
                entry == [id |-> prod.id, image_url |-> prod.image_url,
                          category_ids |-> prod.category_ids, shared |-> fresh]
                pbc == IF fresh THEN l.products_by_category
                       ELSE MergeShared(l.products_by_category, prod.id, cat_id)
            IN /\ image_files' = IF stored THEN image_files \cup {prod.id}
                                 ELSE image_files
               /\ hist' = IF download
                          THEN [hist EXCEPT ![r].downloads[prod.id] = @ + 1]
                          ELSE hist
               /\ loc' = [loc EXCEPT
                    ![r].all_products = AddOrMerge(l.all_products, seen, prod, cat_id),
                    ![r].seen_product_ids = seen \cup {prod.id},
                    ![r].products_by_category =
                        [pbc EXCEPT ![cat_id] = Append(@, entry)],
                    ![r].prod_idx = l.prod_idx + 1]
    /\ UNCHANGED <<source, pc, client, catalog_file, pag>>

\* end of one category: the pacing sleep, then the next category
EndCategory(r) ==
    /\ pc[r] = "products"
    /\ loc[r].prod_idx > Len(loc[r].products)
    /\ loc' = [loc EXCEPT ![r].cat_idx = @ + 1, ![r].products = <<>>,
                          ![r].prod_idx = 0]
    /\ pc' = [pc EXCEPT ![r] = "categories"]
    /\ UNCHANGED <<source, client, catalog_file, image_files, pag, hist>>

\* what json.dump writes for one product dict
Plain(rec) ==
    [id |-> rec.id, image_url |-> rec.image_url, category_ids |-> rec.category_ids]

\* catalog_data = {...}: the snapshot handed to json.dump
CatalogData(l) ==
    [last_sync |-> TRUE,
     categories |-> l.category_tree,
     products |-> l.all_products,
     products_by_category |->
        [c \in DOMAIN l.products_by_category |->
            [j \in 1..Len(l.products_by_category[c]) |->
                Plain(l.products_by_category[c][j])]],
     total_products |-> Len(l.all_products),
     total_categories |-> l.total_categories,
     parent_categories |-> Len(l.category_tree.parents)]

\* a dict as JSON holds it: every integer key is written as a string
StringKeys(d) ==
    [k \in {ToString(c) : c \in DOMAIN d} |->
        d[CHOOSE c \in DOMAIN d : ToString(c) = k]]

\* the document json.dump writes for catalog_data: the category ids that key
\* categories.children and products_by_category become strings; the entries
\* of categories.all are kept in their order, each with its integer id
json_dump(data) ==
    [data EXCEPT !.categories.children = StringKeys(@),
                 !.products_by_category = StringKeys(@)]

\* open(catalog_path, 'w'): truncates the file in place, or raises and
\* leaves it alone
OpenForWrite(file, ok) ==
    IF ok THEN [state |-> "partial", data |-> EmptySnapshot] ELSE file

\* after the loop: build catalog_data and open data/catalog.json for writing
WriteOpen(r) ==
    /\ pc[r] = "categories"
    /\ loc[r].cat_idx > Len(loc[r].category_tree.all)
    /\ \E ok \in BOOLEAN :
          /\ catalog_file' = OpenForWrite(catalog_file, ok)
          /\ loc' = [loc EXCEPT ![r].catalog_data = CatalogData(loc[r]),
                                ![r].result = IF ok THEN "none" ELSE "false"]
          /\ hist' = [hist EXCEPT ![r].write_failed = ~ok,
                                  ![r].dump_started = ok]
          /\ pc' = [pc EXCEPT ![r] = IF ok THEN "dump" ELSE "finally"]
    /\ UNCHANGED <<source, client, image_files, pag>>

\* what the file holds after json.dump and the close of the with block: the
\* whole document, or a part of one when an error stopped the dump or when
\* another writer had the file open (clean = FALSE)
Dumped(data, ok, clean) ==
    IF ok /\ clean THEN [state |-> "complete", data |-> json_dump(data)]
    ELSE [state |-> "partial", data |-> EmptySnapshot]

\* json.dump(catalog_data, f) and the close of the with block, then
\* "return True" or "except Exception: return False"
WriteDump(r) ==
    /\ pc[r] = "dump"
    /\ \E ok, clean \in BOOLEAN :
          /\ clean \/ \E q \in Runners \ {r} : pc[q] = "dump"
          /\ catalog_file' = Dumped(loc[r].catalog_data, ok, clean)
          /\ loc' = [loc EXCEPT ![r].result = IF ok THEN "true" ELSE "false"]
          /\ hist' = [hist EXCEPT ![r].write_failed = ~ok]
    /\ pc' = [pc EXCEPT ![r] = "finally"]
    /\ UNCHANGED <<source, client, image_files, pag>>

\* OdooScraper.close: "if self.client: self.client.close()"
CloseClient(cl) == IF cl = "none" THEN "none" ELSE "closed"

\* "finally: odoo_scraper.close()", then the return
Finally(r) ==
    /\ pc[r] = "finally"
    /\ client' = CloseClient(client)
    /\ hist' = [hist EXCEPT ![r].close_calls = @ + 1]
    /\ pc' = [pc EXCEPT ![r] = "returned"]
    /\ UNCHANGED <<source, catalog_file, image_files, loc, pag>>

\* load_catalog without its try/except: a document json.load cannot parse
\* raises to the caller
load_catalog_unguarded(file) ==
    IF file.state = "absent"
    THEN [raised |-> FALSE, value |-> EmptySnapshot]
    ELSE IF file.state = "complete"
         THEN [raised |-> FALSE, value |-> file.data]
         ELSE [raised |-> TRUE, value |-> EmptySnapshot]

\* load_catalog: "if not catalog_path.exists(): return {empty}", then
\* "return json.load(f)" inside try, and "except Exception: return {empty}"
\* for a file that cannot be opened or parsed
load_catalog(file) ==
    IF file.state = "absent"
    THEN [raised |-> FALSE, value |-> EmptySnapshot]
    ELSE IF file.state = "complete"
         THEN [raised |-> FALSE, value |-> file.data]
         ELSE [raised |-> FALSE, value |-> EmptySnapshot]

\* the caller takes the result (or the exception); the call's locals are gone
Return(r) ==
    /\ pc[r] \in {"returned", "raised"}
    /\ pc' = [pc EXCEPT ![r] = "idle"]
    /\ loc' = [loc EXCEPT ![r] = NoLocals]
    /\ pag' = [pag EXCEPT ![r] = NoPag]
    /\ hist' = [hist EXCEPT ![r] = NoHist]
    /\ UNCHANGED <<source, client, catalog_file, image_files>>

\* ------------------------------------------------------------------------
\* Specifications
\* ------------------------------------------------------------------------

Idle ==
    /\ pc = [r \in Runners |-> "idle"]
    /\ client = "none"
    /\ catalog_file = [state |-> "absent", data |-> EmptySnapshot]
    /\ image_files = {}
    /\ loc = [r \in Runners |-> NoLocals]
    /\ pag = [r \in Runners |-> NoPag]
    /\ hist = [r \in Runners |-> NoHist]

Init ==
    /\ source \in [CategoryIds -> SyncSources]
    /\ Idle

Step(r) ==
    \/ EnsureDirectories(r)
    \/ Connect(r)
    \/ GetHierarchy(r)
    \/ StartCrawl(r)
    \/ PagFetch(r)
    \/ PagProbe(r)
    \/ CrawlReturn(r)
    \/ CrawlRaise(r)
    \/ ProcessProduct(r)
    \/ EndCategory(r)
    \/ WriteOpen(r)
    \/ WriteDump(r)
    \/ Finally(r)
    \/ Return(r)

\* Sync runs one after another, against a source that stays as it is. The
\* accumulators of a run are locals of its call, so a second call can reach
\* them only through the shared session, whose failures a run sees as empty
\* pages; overlapping calls are the subject of SpecConc.
Next == \E r \in Runners : Trigger(r) \/ Step(r)

Spec == Init /\ [][Next]_vars

\* The two triggers as main.py wires them. AsyncIOScheduler hands the plain
\* function sync_catalog to the event loop's thread pool, so an interval run
\* leaves the loop free; manual_sync calls sync_catalog inside the handler,
\* on the loop itself. The timer of the scheduler lives on the loop, so no
\* interval run starts while a handler is running; nothing keeps a request
\* from starting a run while an interval run is on its thread.
ConcSources ==
    {s \in SyncSources : /\ s.first.products = <<Product(101, "remote")>>
                         /\ s.first.next = "none" /\ s.first.total = 0
                         /\ s.rest.products = <<>>}

InitConc ==
    /\ source \in [CategoryIds -> ConcSources]
    /\ Idle

IntervalJob ==
    /\ pc["manual"] = "idle"
    /\ Enter("scheduler")

ManualSync == Enter("manual")

NextConc == IntervalJob \/ ManualSync \/ \E r \in Runners : Step(r)

SpecConc == InitConc /\ [][NextConc]_vars

\* get_all_products on its own: one call on the listing of the first
\* category, for every source listing, the session open
Paginating ==
    LET r == "scheduler"
        cat_data == get_category_hierarchy.all[1]
    IN /\ pc = [q \in Runners |-> IF q = r THEN "pag_loop" ELSE "idle"]
       /\ client = "open"
       /\ catalog_file = [state |-> "absent", data |-> EmptySnapshot]
       /\ image_files = {}
       /\ loc = [q \in Runners |->
                   IF q = r
                   THEN [NoLocals EXCEPT
                            !.category_tree = get_category_hierarchy,
                            !.total_categories = Len(get_category_hierarchy.all),
                            !.cat_idx = 1]
                   ELSE NoLocals]
       /\ pag = [q \in Runners |->
                   IF q = r
                   THEN [category_url |-> cat_data.url, url |-> 1, page |-> 1,
                         total_expected |-> 0, all_products |-> <<>>,
                         next_url |-> NoUrl]
                   ELSE NoPag]
       /\ hist = [q \in Runners |->
                    IF q = r
                    THEN [NoHist EXCEPT !.connect_calls = 1,
                                        !.crawled = <<cat_data.id>>]
                    ELSE NoHist]

InitPag ==
    /\ \E s \in Sources : source = [c \in CategoryIds |-> s]
    /\ Paginating

NextPag == PagFetch("scheduler") \/ PagProbe("scheduler")

\* the loop is straight-line code and every fetch returns (a response, an
\* error or the 30 s timeout), so an iteration that can run does run
SpecPag == InitPag /\ [][NextPag]_vars /\ WF_vars(NextPag)

\* ------------------------------------------------------------------------
\* Properties
\* ------------------------------------------------------------------------

Ids(seq) == {seq[i].id : i \in DOMAIN seq}

Elems(seq) == {seq[i] : i \in DOMAIN seq}

NoRepeat(seq) == \A i, j \in DOMAIN seq : i # j => seq[i] # seq[j]

Root(cat_id) ==
    \E i \in DOMAIN get_category_hierarchy.parents :
        get_category_hierarchy.parents[i].id = cat_id

\* C1: when a sync run has returned, every product that the listings of two
\* distinct categories yielded has exactly one record in the global list,
\* and that record's category_ids holds both categories and no id twice.
C1_OneRecordBothCategories ==
    \A r \in Runners :
        pc[r] = "returned" =>
            LET pbc == loc[r].products_by_category
                all == loc[r].all_products
            IN \A p \in ProductIds : \A c1, c2 \in DOMAIN pbc :
                  (c1 # c2 /\ p \in Ids(pbc[c1]) /\ p \in Ids(pbc[c2])) =>
                     /\ Cardinality({i \in DOMAIN all : all[i].id = p}) = 1
                     /\ \A i \in DOMAIN all :
                           all[i].id = p =>
                              /\ {c1, c2} \subseteq Elems(all[i].category_ids)
                              /\ NoRepeat(all[i].category_ids)

\* a successful run in which product 101 was listed under the root and
\* under the child
C1_Witness ==
    \E r \in Runners :
        /\ pc[r] = "returned" /\ loc[r].result = "true"
        /\ \A c \in CategoryIds :
              /\ c \in DOMAIN loc[r].products_by_category
              /\ 101 \in Ids(loc[r].products_by_category[c])

\* C2: every persisted snapshot has in products exactly the ids that occur
\* in the products_by_category lists, each once, and total_products is the
\* length of products.
C2_ProductsMatchListings ==
    catalog_file.state = "complete" =>
        LET d == catalog_file.data
        IN /\ Ids(d.products) =
                 UNION {Ids(d.products_by_category[c]) :
                           c \in DOMAIN d.products_by_category}
           /\ \A i, j \in DOMAIN d.products :
                 i # j => d.products[i].id # d.products[j].id
           /\ d.total_products = Len(d.products)

\* a persisted snapshot in which one category's list repeats a product
C2_Witness ==
    /\ catalog_file.state = "complete"
    /\ \E c \in DOMAIN catalog_file.data.products_by_category :
          LET l == catalog_file.data.products_by_category[c]
          IN \E i, j \in DOMAIN l : i # j /\ l[i].id = l[j].id

\* C3: in every persisted snapshot, products is in strictly descending order
\* of product id.
C3_SortedDescending ==
    catalog_file.state = "complete" =>
        \A i, j \in DOMAIN catalog_file.data.products :
            i < j => catalog_file.data.products[i].id
                        > catalog_file.data.products[j].id

\* C4: the snapshot file never holds a partial snapshot, and a run whose
\* snapshot write failed returns false with the file as it was when the run
\* began.
C4_WriteFailureLeavesFile ==
    /\ catalog_file.state # "partial"
    /\ \A r \in Runners :
          (pc[r] = "returned" /\ hist[r].write_failed) =>
             /\ loc[r].result = "false"
             /\ catalog_file = hist[r].prev_file

\* C5: at most one call of sync_catalog is in flight at any time.
C5_OneSyncInFlight == Cardinality({r \in Runners : InFlight(r)}) <= 1

\* C6: a run that called connect() has called close() exactly once when it
\* returns.
C6_CloseOncePerConnect ==
    \A r \in Runners :
        (pc[r] = "returned" /\ hist[r].connect_calls > 0) =>
            hist[r].close_calls = 1

\* C7: sync_catalog never raises to its caller; a call ends with true or
\* false, and with true only when the snapshot was written in full.
C7_NeverRaises ==
    \A r \in Runners :
        /\ pc[r] # "raised"
        /\ pc[r] = "returned" =>
              /\ loc[r].result \in {"true", "false"}
              /\ loc[r].result = "true" =>
                    catalog_file = [state |-> "complete",
                                    data |-> json_dump(loc[r].catalog_data)]

\* C8: get_all_products ends for every source listing, after at most 100
\* iterations of its page loop.
C8_TerminatesWithinCeiling ==
    /\ [](hist["scheduler"].iterations <= PAGE_LIMIT
          /\ pag["scheduler"].page <= PAGE_LIMIT + 1)
    /\ <>(pc["scheduler"] = "pag_return")

\* the call that ran into the ceiling: 100 iterations, then the return
C8_Witness ==
    /\ pc["scheduler"] = "pag_return"
    /\ hist["scheduler"].iterations = PAGE_LIMIT
    /\ pag["scheduler"].page = PAGE_LIMIT + 1

\* C9 as claimed: the paginator is never run against a root category.
C9_RootsNotCrawled ==
    \A r \in Runners : \A c \in Elems(hist[r].crawled) : ~Root(c)

HasUrl(cat_data) == cat_data.url # NoUrl

\* the loop over the categories of run r has finished
CrawlOver(r) ==
    pc[r] = "dump" \/ hist[r].dump_started \/ hist[r].write_failed

\* C9 amended: the paginator is run against every category of the hierarchy
\* that has a URL, roots included, in the order of category_tree["all"]; when
\* the loop is over every one of them has been crawled and is a key of
\* products_by_category.
C9_EveryCategoryCrawled ==
    \A r \in Runners :
        LET targets == SelectSeq(loc[r].category_tree.all, HasUrl)
            crawled == hist[r].crawled
        IN /\ Len(crawled) <= Len(targets)
           /\ \A i \in DOMAIN crawled : crawled[i] = targets[i].id
           /\ CrawlOver(r) =>
                 /\ Len(crawled) = Len(targets)
                 /\ DOMAIN loc[r].products_by_category = Ids(targets)

\* the crawl of a run is over and a root is among the crawled categories
C9_Witness ==
    \E r \in Runners :
        /\ CrawlOver(r)
        /\ \E c \in Elems(hist[r].crawled) : Root(c)

\* C10: within one run download_image is called at most once for each
\* product id.
C10_OneDownloadPerProduct ==
    \A r \in Runners : \A p \in ProductIds : hist[r].downloads[p] <= 1

\* a run that listed product 101 under both categories, failed to store its
\* image and called download_image for it once
C10_Witness ==
    \E r \in Runners :
        /\ pc[r] = "returned" /\ loc[r].result = "true"
        /\ \A c \in CategoryIds :
              /\ c \in DOMAIN loc[r].products_by_category
              /\ 101 \in Ids(loc[r].products_by_category[c])
        /\ hist[r].downloads[101] = 1
        /\ \A i \in DOMAIN loc[r].all_products :
              loc[r].all_products[i].image_url # "local"

\* C11: a run calls download_image for no product whose image an earlier run
\* has already stored.
C11_NoSecondDownload ==
    \A r \in Runners : \A p \in ProductIds :
        p \in hist[r].prev_images => hist[r].downloads[p] = 0

\* C12: load_catalog never raises; it returns the empty snapshot when the
\* snapshot file is missing or cannot be parsed, and after a run that returned
\* true it returns what that run persisted: the same categories, products,
\* per-category lists (under the category id as JSON writes it) and stats.
C12_LoadNeverRaises ==
    LET res == load_catalog(catalog_file)
    IN /\ ~res.raised
       /\ catalog_file.state \in {"absent", "partial"} =>
             res.value = EmptySnapshot
       /\ \A r \in Runners :
             (pc[r] = "returned" /\ loc[r].result = "true") =>
                LET d == loc[r].catalog_data
                IN /\ res.value.last_sync = d.last_sync
                   /\ res.value.categories.parents = d.categories.parents
                   /\ res.value.categories.all = d.categories.all
                   /\ res.value.products = d.products
                   /\ \A c \in DOMAIN d.products_by_category :
                         /\ ToString(c) \in
                                DOMAIN res.value.products_by_category
                         /\ res.value.products_by_category[ToString(c)] =
                                d.products_by_category[c]
                   /\ res.value.total_products = d.total_products
                   /\ res.value.total_categories = d.total_categories
                   /\ res.value.parent_categories = d.parent_categories

\* a run whose json.dump failed has left a file that cannot be parsed where a
\* full snapshot was: load_catalog answers with the empty snapshot
C12_Witness ==
    \E r \in Runners :
        /\ pc[r] = "returned"
        /\ hist[r].write_failed
        /\ hist[r].prev_file.state = "complete"
        /\ Len(hist[r].prev_file.data.products) > 0
        /\ catalog_file.state = "partial"
        /\ load_catalog(catalog_file) =
               [raised |-> FALSE, value |-> EmptySnapshot]

\* the product ids of a products list, each with its set of category ids
CategorySets(products) ==
    {<<products[i].id, Elems(products[i].category_ids)>> :
        i \in DOMAIN products}

C14_AppendedIsMerged ==
    \A r \in Runners :
        (pc[r] = "products" /\ loc[r].prod_idx > 1) =>
            LET l == loc[r]
                cat_id == l.category_tree.all[l.cat_idx].id
                list == l.products_by_category[cat_id]
                appended == list[Len(list)]
                stored == l.all_products[FirstIndex(l.all_products, appended.id)]
            IN /\ appended.category_ids = stored.category_ids
               /\ appended.image_url = stored.image_url

\* the listing never links a page to itself
NoSelfLink(src) == src.first.next # "self" /\ src.rest.next # "self"

\* C15: within one call of get_all_products on a listing that never links a
\* page to itself no URL is fetched twice, and when the pages the call
\* fetched list disjoint products the returned list repeats no product id.
C15_NoUrlFetchedTwice ==
    \A r \in Runners :
        LET src == source[pag[r].category_url]
        IN (pc[r] \in {"pag_loop", "pag_probe", "pag_return"}
                /\ NoSelfLink(src)) =>
              /\ NoRepeat(hist[r].fetched)
              /\ (/\ pc[r] = "pag_return"
                  /\ Elems(hist[r].fetched) \subseteq {1, 2}
                  /\ NoRepeat(src.first.products \o src.rest.products)) =>
                    NoRepeat([i \in DOMAIN pag[r].all_products |->
                                 pag[r].all_products[i].id])

====
